---- MODULE Spec2Model ----
(***************************************************************************)
(* Model of the autocomplete engine of auto_completor.py: the corpus held  *)
(* by AutoCompletor, search (exact phase, fuzzy phase), build_regex,       *)
(* is_perfect_match, calc_score with its two penalty tables, and the       *)
(* ranking done by get_best_k_completions; and of the window of            *)
(* gui_main.py, its debounce timer and its fetch tasks.                    *)
(*                                                                         *)
(* A Python str is a sequence of one-character strings.  Positions in the  *)
(* helpers are 0-based as in the source; s[i+1] is Python's s[i].          *)
(***************************************************************************)
EXTENDS Integers, Sequences, FiniteSets, TLC

VARIABLES sentences, pc, prefix, results, hits, exact_count, fuzzy_ran,
          sq, sm, score,
          rq, rt, accepted, span,
          frames,
          entry, debounce_pending, fetches, current_task, after0, listbox, spinner

\* the engine and the call of get_best_k_completions in progress
engineVars == <<sentences, prefix, results, hits, exact_count, fuzzy_ran>>

\* one call of calc_score
scoreVars == <<sq, sm, score>>

\* one pattern of build_regex put to one text
regexVars == <<rq, rt, accepted, span>>

\* the window of gui_main.py: the entry, the debounce timer, the fetch tasks,
\* the callbacks registered with root.after(0, ...), the list and the spinner
guiVars == <<entry, debounce_pending, fetches, current_task, after0, listbox, spinner>>

vars == <<engineVars, pc, scoreVars, regexVars, frames, guiVars>>

(***************************************************************************)
(* Characters.                                                             *)
(***************************************************************************)
LowerLetters == {"a", "b", "c", "d", "e"}

UpperLetters == {"A", "B"}

Whitespace == {" ", "\t"}

\* the members of string.punctuation that the model uses; "_" is both
\* punctuation and a word character of the regular expressions
Punctuation == {",", "-", "_"}

\* code points, the order in which Python compares two str values
Ord(c) ==
    CASE c = "\t" -> 9
      [] c = " " -> 32
      [] c = "," -> 44
      [] c = "-" -> 45
      [] c = "A" -> 65
      [] c = "B" -> 66
      [] c = "_" -> 95
      [] c = "a" -> 97
      [] c = "b" -> 98
      [] c = "c" -> 99
      [] c = "d" -> 100
      [] c = "e" -> 101

\* str.lower() on one character
LowerChar(c) ==
    CASE c = "A" -> "a"
      [] c = "B" -> "b"
      [] OTHER -> c

\* \w of the re module
IsWord(c) == c \in LowerLetters \cup UpperLetters \cup {"_"}

\* \s of the re module, and what str.strip() removes
IsSpace(c) == c \in Whitespace

IsPunct(c) == c \in Punctuation

(***************************************************************************)
(* str operations.                                                         *)
(***************************************************************************)
Lower(s) == [i \in 1..Len(s) |-> LowerChar(s[i])]

RECURSIVE LStrip(_)
LStrip(s) ==
    IF s # <<>> /\ IsSpace(Head(s)) THEN LStrip(Tail(s)) ELSE s

RECURSIVE RStrip(_)
RStrip(s) ==
    IF s # <<>> /\ IsSpace(s[Len(s)]) THEN RStrip(SubSeq(s, 1, Len(s) - 1)) ELSE s

Strip(s) == RStrip(LStrip(s))

\* re.sub(r"\s+", " ", s): every maximal run of whitespace becomes one space
RECURSIVE CollapseSpaces(_)
CollapseSpaces(s) ==
    IF s = <<>> THEN <<>>
    ELSE IF IsSpace(Head(s))
         THEN <<" ">> \o CollapseSpaces(LStrip(s))
         ELSE <<Head(s)>> \o CollapseSpaces(Tail(s))

\* re.sub(r",", "", s)
RemoveCommas(s) == SelectSeq(s, LAMBDA c : c # ",")

\* s.translate(table) with table = str.maketrans('', '', string.punctuation)
RemovePunctuation(s) == SelectSeq(s, LAMBDA c : ~IsPunct(c))

\* the two substitutions at the head of search
NormalizeQuery(substring) == Strip(RemoveCommas(Strip(CollapseSpaces(substring))))

\* needle == hay[i : i + len(needle)]
OccursAt(needle, hay, i) ==
    /\ i + Len(needle) <= Len(hay)
    /\ \A k \in 1..Len(needle) : hay[i + k] = needle[k]

\* needle in hay
Contains(needle, hay) == \E i \in 0..Len(hay) : OccursAt(needle, hay, i)

\* hay.index(needle), called only when needle in hay
Index(needle, hay) ==
    CHOOSE i \in 0..Len(hay) :
        /\ OccursAt(needle, hay, i)
        /\ \A j \in 0..(i - 1) : ~OccursAt(needle, hay, j)

\* Python's < on two str values
RECURSIVE StrLess(_, _)
StrLess(s, t) ==
    IF t = <<>> THEN FALSE
    ELSE IF s = <<>> THEN TRUE
    ELSE IF Head(s) # Head(t) THEN Ord(Head(s)) < Ord(Head(t))
    ELSE StrLess(Tail(s), Tail(t))

(***************************************************************************)
(* Regular expressions.                                                    *)
(***************************************************************************)
\* \b at position i (0..len(s)) of s
WordBoundary(s, i) ==
    LET before == i > 0 /\ IsWord(s[i])
        after == i < Len(s) /\ IsWord(s[i + 1])
    IN before # after

\* the end of the run of word characters that starts at position i
RECURSIVE WordEnd(_, _)
WordEnd(s, i) ==
    IF i < Len(s) /\ IsWord(s[i + 1]) THEN WordEnd(s, i + 1) ELSE i

\* the end of the run of non-word characters that starts at position i
RECURSIVE GapEnd(_, _)
GapEnd(s, i) ==
    IF i < Len(s) /\ ~IsWord(s[i + 1]) THEN GapEnd(s, i + 1) ELSE i

\* re.findall(r"\w+", s) scanning from position i
RECURSIVE TokensFrom(_, _)
TokensFrom(s, i) ==
    IF i >= Len(s) THEN <<>>
    ELSE IF IsWord(s[i + 1])
         THEN <<SubSeq(s, i + 1, WordEnd(s, i))>> \o TokensFrom(s, WordEnd(s, i))
         ELSE TokensFrom(s, i + 1)

Tokens(s) == TokensFrom(s, 0)

\* the rest of the phrase pattern, tokens joined by \W+ and closed by \b,
\* matched at position i of s; a token begins with a word character, so
\* the greedy \W+ between two tokens can only take the whole gap
RECURSIVE PhraseAt(_, _, _)
PhraseAt(tokens, s, i) ==
    /\ OccursAt(Head(tokens), s, i)
    /\ LET j == i + Len(Head(tokens))
       IN IF Len(tokens) = 1
          THEN WordBoundary(s, j)
          ELSE /\ GapEnd(s, j) > j
               /\ PhraseAt(Tail(tokens), s, GapEnd(s, j))

is_perfect_match(query, sentence) ==
    LET tokens == Tokens(Lower(query))
        low == Lower(sentence)
    IN /\ tokens # <<>>
       /\ \E i \in 0..Len(low) : WordBoundary(low, i) /\ PhraseAt(tokens, low, i)

\* "." in a pattern built by build_regex; every other element is the
\* literal character that re.escape protects
DOT == "ANY"

\* build_regex without the loop that appends the insertion alternatives
build_regex_no_insertion(query) ==
    LET q == query
        n == Len(q)
        left(i) == SubSeq(q, 1, i)
        substitution == [i \in 1..n |-> left(i - 1) \o <<DOT>> \o SubSeq(q, i + 1, n)]
        deletion == [i \in 1..n |-> left(i - 1) \o SubSeq(q, i + 1, n)]
    IN substitution \o deletion \o <<q>>

\* the alternatives of the union, in the order build_regex appends them
build_regex(query) ==
    LET q == query
        n == Len(q)
        left(i) == SubSeq(q, 1, i)
        insertion == [i \in 1..(n + 1) |-> left(i - 1) \o <<DOT>> \o SubSeq(q, i, n)]
        substitution == [i \in 1..n |-> left(i - 1) \o <<DOT>> \o SubSeq(q, i + 1, n)]
        deletion == [i \in 1..n |-> left(i - 1) \o SubSeq(q, i + 1, n)]
    IN insertion \o substitution \o deletion \o <<q>>

\* one element of an alternative against one character, re.IGNORECASE left out
ElementMatchesCaseSensitive(e, c) ==
    IF e = DOT THEN c # "\n" ELSE e = c

\* one element of an alternative against one character, under re.IGNORECASE
ElementMatches(e, c) ==
    IF e = DOT THEN c # "\n" ELSE LowerChar(e) = LowerChar(c)

\* the pattern without its closing \b
AlternativeAtNoClosingBoundary(alt, s, i) ==
    /\ i + Len(alt) <= Len(s)
    /\ WordBoundary(s, i)
    /\ \A k \in 1..Len(alt) : ElementMatches(alt[k], s[i + k])

\* \b(?:alt)\b matched at position i of s
AlternativeAt(alt, s, i) ==
    /\ i + Len(alt) <= Len(s)
    /\ WordBoundary(s, i)
    /\ \A k \in 1..Len(alt) : ElementMatches(alt[k], s[i + k])
    /\ WordBoundary(s, i + Len(alt))

MatchesAt(rx, s, i) == \E a \in 1..Len(rx) : AlternativeAt(rx[a], s, i)

NoMatch == <<>>

\* the whole of t is matched by one alternative of the union
FullMatch(rx, t) ==
    \E a \in 1..Len(rx) :
        /\ Len(rx[a]) = Len(t)
        /\ \A k \in 1..Len(t) : ElementMatches(rx[a][k], t[k])

\* rx.search(s).span(): the leftmost position where an alternative matches
\* and, there, the first alternative of the union that does
RegexSearch(rx, s) ==
    IF \A i \in 0..Len(s) : ~MatchesAt(rx, s, i) THEN NoMatch
    ELSE LET start == CHOOSE i \in 0..Len(s) :
                          /\ MatchesAt(rx, s, i)
                          /\ \A j \in 0..(i - 1) : ~MatchesAt(rx, s, j)
             a == CHOOSE x \in 1..Len(rx) :
                      /\ AlternativeAt(rx[x], s, start)
                      /\ \A y \in 1..(x - 1) : ~AlternativeAt(rx[y], s, start)
         IN <<start, start + Len(rx[a])>>

(***************************************************************************)
(* Scoring.                                                                *)
(***************************************************************************)
\* the substitution table read with 1-based positions
incorrect_letter_penalty_one_based(position) ==
    IF position = 1 THEN 5
    ELSE IF position = 2 THEN 4
    ELSE IF position = 3 THEN 3
    ELSE IF position = 4 THEN 2
    ELSE 1

incorrect_letter_penalty(position) ==
    IF position = 0 THEN 5
    ELSE IF position = 1 THEN 4
    ELSE IF position = 2 THEN 3
    ELSE IF position = 3 THEN 2
    ELSE 1

missing_or_added_penalty(position) ==
    IF position = 0 THEN 10
    ELSE IF position = 1 THEN 8
    ELSE IF position = 2 THEN 6
    ELSE IF position = 3 THEN 4
    ELSE 2

\* norm, the local function of calc_score
norm(s) == Strip(CollapseSpaces(RemovePunctuation(Lower(s))))

\* k is None
None == -1

\* the return 0 inside the loop
Rejected == -2

\* the two-cursor loop of calc_score; the value is k when the loop ends
RECURSIVE SkipIndex(_, _, _, _, _)
SkipIndex(l, s, i, j, k) ==
    IF i < Len(l) /\ j < Len(s)
    THEN IF l[i + 1] = s[j + 1]
         THEN SkipIndex(l, s, i + 1, j + 1, k)
         ELSE IF k # None THEN Rejected ELSE SkipIndex(l, s, i + 1, j, i)
    ELSE k

calc_score(query, match_text) ==
    LET q == norm(query)
        m == norm(match_text)
        diffs == {i \in 0..(Len(q) - 1) : q[i + 1] # m[i + 1]}
        l == IF Len(q) > Len(m) THEN q ELSE m
        s == IF Len(q) > Len(m) THEN m ELSE q
        k0 == SkipIndex(l, s, 0, 0, None)
        k == IF k0 = None THEN Len(l) - 1 ELSE k0
    IN IF Len(q) - Len(m) > 1 \/ Len(m) - Len(q) > 1 THEN 0
       ELSE IF q = m THEN 2 * Len(q)
       ELSE IF Len(q) = Len(m)
            THEN IF Cardinality(diffs) # 1 THEN 0
                 ELSE 2 * Len(m) - incorrect_letter_penalty(CHOOSE i \in diffs : TRUE)
       ELSE IF k0 = Rejected THEN 0
       ELSE 2 * Len(m) - missing_or_added_penalty(k)

(***************************************************************************)
(* The corpus and the search.                                              *)
(***************************************************************************)
\* the records of self.sentences: line i of the archive
Sentence(content, offset) ==
    [content |-> content, source_path |-> "archive", offset |-> offset]

AutoCompleteData(completed_sentence, source_text, offset, sc, matched_substring, match_span) ==
    [completed_sentence |-> completed_sentence, source_text |-> source_text,
     offset |-> offset, score |-> sc,
     matched_substring |-> matched_substring, match_span |-> match_span]

\* the number of exact results from which search skips the fuzzy phase
K_MIN == 5

\* the length of the slice get_best_k_completions returns
K == 5

\* the candidate the first loop of search appends for one sentence, if any
ExactHit(substring, sentence) ==
    LET text == sentence.content
        tl == Lower(text)
        q_lower == Lower(substring)
    IN IF Contains(q_lower, tl) /\ is_perfect_match(substring, text)
       THEN <<AutoCompleteData(text, sentence.source_path, sentence.offset,
                               Len(substring) * 2, substring,
                               <<Index(q_lower, tl), Index(q_lower, tl) + Len(substring)>>)>>
       ELSE <<>>

\* the first loop of search over the sentences from index i on
RECURSIVE ExactPhase(_, _, _)
ExactPhase(substring, sents, i) ==
    IF i > Len(sents) THEN <<>>
    ELSE ExactHit(substring, sents[i]) \o ExactPhase(substring, sents, i + 1)

search_sentences(query, sents) ==
    LET regex == build_regex(query)
    IN SelectSeq(sents, LAMBDA s : RegexSearch(regex, s.content) # NoMatch)

\* the second loop of search without the test on set_of_seen
FuzzyHitSeenIgnored(substring, fuzzy_rx, s, set_of_seen) ==
    LET m == RegexSearch(fuzzy_rx, s.content)
        matched_text == SubSeq(s.content, m[1] + 1, m[2])
    IN IF m = NoMatch THEN <<>>
       ELSE <<AutoCompleteData(s.content, s.source_path, s.offset,
                               calc_score(substring, matched_text), substring, m)>>

\* the candidate the second loop of search appends for one sentence, if any
FuzzyHit(substring, fuzzy_rx, s, set_of_seen) ==
    LET m == RegexSearch(fuzzy_rx, s.content)
        matched_text == SubSeq(s.content, m[1] + 1, m[2])
    IN IF m = NoMatch \/ s.content \in set_of_seen THEN <<>>
       ELSE <<AutoCompleteData(s.content, s.source_path, s.offset,
                               calc_score(substring, matched_text), substring, m)>>

RECURSIVE FuzzyPhase(_, _, _, _, _)
FuzzyPhase(substring, fuzzy_rx, fuzzy_candidates, set_of_seen, i) ==
    IF i > Len(fuzzy_candidates) THEN <<>>
    ELSE FuzzyHit(substring, fuzzy_rx, fuzzy_candidates[i], set_of_seen)
             \o FuzzyPhase(substring, fuzzy_rx, fuzzy_candidates, set_of_seen, i + 1)

\* the guard of the fuzzy phase with <= written for <
RunsFuzzyOffByOne(n) == n = 0 \/ n <= K_MIN

\* whether search enters the fuzzy phase with this many exact results
RunsFuzzy(n) == n = 0 \/ n < K_MIN

\* search(substring) on the corpus sents
search(raw, sents) ==
    LET substring == NormalizeQuery(raw)
        exact == ExactPhase(substring, sents, 1)
        set_of_seen == {exact[i].completed_sentence : i \in 1..Len(exact)}
    IN IF RunsFuzzy(Len(exact))
       THEN exact \o FuzzyPhase(substring, build_regex(substring),
                                 search_sentences(substring, sents), set_of_seen, 1)
       ELSE exact

\* get_text on an AutoCompleteData
get_text(r) == Lower(r.completed_sentence)

\* the sort key with the score not negated
KeyLessAscending(a, b) ==
    \/ a.score < b.score
    \/ a.score = b.score /\ StrLess(get_text(a), get_text(b))

\* the sort key (-r.score, get_text(r)) of a is less than that of b
KeyLess(a, b) ==
    \/ a.score > b.score
    \/ a.score = b.score /\ StrLess(get_text(a), get_text(b))

\* list.sort is stable: x goes after every element whose key is not greater
RECURSIVE InsertSorted(_, _)
InsertSorted(x, sorted) ==
    IF sorted = <<>> THEN <<x>>
    ELSE IF KeyLess(x, Head(sorted)) THEN <<x>> \o sorted
    ELSE <<Head(sorted)>> \o InsertSorted(x, Tail(sorted))

RECURSIVE SortHits(_, _)
SortHits(list, n) ==
    IF n = 0 THEN <<>> ELSE InsertSorted(list[n], SortHits(list, n - 1))

\* hits[:5]
FirstK(list) == SubSeq(list, 1, IF Len(list) < K THEN Len(list) ELSE K)

Ranked(found) == FirstK(SortHits(found, Len(found)))

(***************************************************************************)
(* Inputs.  A str is written as the tuple of its characters.               *)
(***************************************************************************)
MaxQueryLen == 2

MaxLineLen == 2

MaxCorpus == 1

MaxRankCorpus == 6

MaxScoreLen == 5

MaxNearCorpus == 2

MaxPatternLen == 3

MaxCalls == 2

MaxFetches == 3

MaxCallCorpus == 2

MaxTextLen == 4

\* every str over the alphabet of length at most n
Strings(alphabet, n) == UNION {[1..k -> alphabet] : k \in 0..n}

\* a line that read_sentences_from_files keeps: stripped and not empty
IsLine(s) == s # <<>> /\ Strip(s) = s

\* longer lines and queries, scaled down from the sentences of the tests
LongLines ==
    { <<"a", " ", "b">>, <<"a", ",", " ", "b">>, <<"a", " ", "-", " ", "b">>,
      <<"a", " ", "c", " ", "b">>, <<"a", "b", " ", "c", " ", "d", "e">>,
      <<"a", " ", " ", "b">>, <<"a", "-", "b">>, <<"A", " ", "b">>,
      <<"a", "\t", "b">>, <<"a", "_", "b">>, <<"a", "b", "c", "d">>,
      <<"c", "a", "b", "d">>, <<"a", ",", "b">> }

LongQueries ==
    { <<"b">>, <<"a", "b">>, <<"a", " ", "b">>, <<"A", " ", "b">>,
      <<"a", " ", "-", " ", "b">>, <<"a", " ", ",", " ", "b">>,
      <<"a", ",", " ", "b">>, <<"a", " ", " ", "b">>, <<"a", "_", "b">>,
      <<"a", "b", " ", " ", "d", "e">>, <<"a", "b", " ", "d", "e">>,
      <<"a", "b", "d">>, <<"a", "b", "e", "c", "d">>, <<"a", "b", "e", "d">>,
      <<"\t">>, <<" ", ",", " ">> }

Lines == {s \in Strings({"a", "b", " "}, MaxLineLen) \cup LongLines : IsLine(s)}

Queries == Strings({"a", " ", ","}, MaxQueryLen) \cup LongQueries

\* self.sentences for an archive with these lines
Corpus(lines) == [i \in 1..Len(lines) |-> Sentence(lines[i], i)]

Corpora == {Corpus(c) : c \in UNION {[1..n -> Lines] : n \in 0..MaxCorpus}}

\* a larger archive of few distinct lines, and the queries put to it
RankLines ==
    { <<"a", "b", "c", "d">>, <<"A", "B", "c", "d", " ", "b">>, <<"a", "b", "e", "d">> }

RankQueries == { <<"a", "b", "c", "d">>, <<"a", "b", "e", "d">> }

RankCorpora == {Corpus(c) : c \in UNION {[1..n -> RankLines] : n \in 0..MaxRankCorpus}}

\* the arguments given to calc_score
ScoreQueries == Strings({"a", "b"}, MaxScoreLen)

ScoreTexts ==
    Strings({"a", "b", "-"}, MaxScoreLen)
        \cup { <<"A", "b">>, <<"a", " ", " ", "b">>, <<" ", "a", "b">>, <<"a", "_", "b">> }

(***************************************************************************)
(* The engine: one call of get_best_k_completions at a time.               *)
(***************************************************************************)
Idle ==
    /\ pc = "idle"
    /\ prefix = <<>>
    /\ results = <<>>
    /\ hits = <<>>
    /\ exact_count = 0
    /\ fuzzy_ran = FALSE

NoScore ==
    /\ sq = <<>>
    /\ sm = <<>>
    /\ score = 0

\* the calls of get_best_k_completions that can be in progress at once
Calls == 1..MaxCalls

\* the locals of a call that has not started
FreeFrame ==
    [pc |-> "free", prefix |-> <<>>, substring |-> <<>>, i |-> 0, results |-> <<>>,
     set_of_seen |-> {}, fuzzy_candidates |-> <<>>, ret |-> <<>>]

NoCalls == frames = [c \in Calls |-> FreeFrame]

\* self.current_task is None
NoTask == 0

\* the window as AutoCompleteGUI.__init__ leaves it
NoGui ==
    /\ entry = <<>>
    /\ debounce_pending = FALSE
    /\ fetches = <<>>
    /\ current_task = NoTask
    /\ after0 = <<>>
    /\ listbox = <<>>
    /\ spinner = FALSE

NoRegex ==
    /\ rq = <<>>
    /\ rt = <<>>
    /\ accepted = FALSE
    /\ span = NoMatch

Init ==
    /\ sentences \in Corpora
    /\ Idle
    /\ NoScore
    /\ NoRegex
    /\ NoCalls
    /\ NoGui

\* get_best_k_completions(p): results is what search returned, hits what
\* the call returns
get_best_k_completions(p) ==
    /\ pc = "idle"
    /\ LET substring == NormalizeQuery(p)
           found == search(p, sentences)
           exact == ExactPhase(substring, sentences, 1)
       IN /\ results' = found
          /\ hits' = Ranked(found)
          /\ exact_count' = Len(exact)
          /\ fuzzy_ran' = RunsFuzzy(Len(exact))
    /\ prefix' = p
    /\ pc' = "returned"
    /\ UNCHANGED <<sentences, scoreVars, regexVars, frames, guiVars>>

\* the caller drops the list it was given
Discard ==
    /\ pc = "returned"
    /\ pc' = "idle"
    /\ prefix' = <<>>
    /\ results' = <<>>
    /\ hits' = <<>>
    /\ exact_count' = 0
    /\ fuzzy_ran' = FALSE
    /\ UNCHANGED <<sentences, scoreVars, regexVars, frames, guiVars>>

Next ==
    \/ \E p \in Queries : get_best_k_completions(p)
    \/ Discard

Spec == Init /\ [][Next]_vars

InitRank ==
    /\ sentences \in RankCorpora
    /\ Idle
    /\ NoScore
    /\ NoRegex
    /\ NoCalls
    /\ NoGui

NextRank ==
    \/ \E p \in RankQueries : get_best_k_completions(p)
    \/ Discard

SpecRank == InitRank /\ [][NextRank]_vars

\* archives that hold a word next to words one edit away from it
NearLines ==
    { <<"a", "b", "c", "d">>, <<"b", " ", "a", "b", "c", "d">>,
      <<"a", "b", "c", "d", "e">>, <<"a", "b", "e", "d">>, <<"b", "c", "d">>,
      <<"a", "b", "c", "d", " ", "b">> }

NearQueries == { <<"a", "b", "c", "d">>, <<"a", "b", "e", "d">> }

NearCorpora == {Corpus(c) : c \in UNION {[1..n -> NearLines] : n \in 0..MaxNearCorpus}}

InitNear ==
    /\ sentences \in NearCorpora
    /\ Idle
    /\ NoScore
    /\ NoRegex
    /\ NoCalls
    /\ NoGui

NextNear ==
    \/ \E p \in NearQueries : get_best_k_completions(p)
    \/ Discard

SpecNear == InitNear /\ [][NextNear]_vars

(***************************************************************************)
(* calc_score on its own.                                                  *)
(***************************************************************************)
InitScore ==
    /\ sentences = <<>>
    /\ pc = "score"
    /\ prefix = <<>>
    /\ results = <<>>
    /\ hits = <<>>
    /\ exact_count = 0
    /\ fuzzy_ran = FALSE
    /\ sq \in ScoreQueries
    /\ sm \in ScoreTexts
    /\ score = 0
    /\ NoRegex
    /\ NoCalls
    /\ NoGui

Score ==
    /\ pc = "score"
    /\ score' = calc_score(sq, sm)
    /\ pc' = "scored"
    /\ UNCHANGED <<engineVars, sq, sm, regexVars, frames, guiVars>>

NextScore == Score

SpecScore == InitScore /\ [][NextScore]_vars

(***************************************************************************)
(* Several calls of get_best_k_completions on one AutoCompletor, each with *)
(* its own locals, advancing one loop iteration at a time.                 *)
(***************************************************************************)
CallLines == { <<"a", "b">>, <<"a", "c">> }

CallQueries == { <<"a", "b">>, <<"a", "c">> }

CallCorpora == {Corpus(c) : c \in UNION {[1..n -> CallLines] : n \in 0..MaxCallCorpus}}

InitCalls ==
    /\ sentences \in CallCorpora
    /\ pc = "calls"
    /\ prefix = <<>>
    /\ results = <<>>
    /\ hits = <<>>
    /\ exact_count = 0
    /\ fuzzy_ran = FALSE
    /\ NoScore
    /\ NoRegex
    /\ NoCalls
    /\ NoGui

\* set_of_seen kept on the engine, one set for all the calls
SeenByAll(frs, c) == UNION {frs[d].set_of_seen : d \in Calls}

\* the set_of_seen that the fuzzy loop of call c consults: its own local
SeenBy(frs, c) == frs[c].set_of_seen

\* call c enters search: the normalisation and the empty locals
Enter(c, p) ==
    /\ pc = "calls"
    /\ frames[c].pc = "free"
    /\ frames' = [frames EXCEPT ![c] =
                     [FreeFrame EXCEPT !.pc = "exact", !.prefix = p,
                                       !.substring = NormalizeQuery(p), !.i = 1]]
    /\ UNCHANGED <<engineVars, pc, scoreVars, regexVars, guiVars>>

\* one iteration of the first loop of search
ExactStep(c) ==
    /\ frames[c].pc = "exact"
    /\ frames[c].i <= Len(sentences)
    /\ LET f == frames[c]
           hit == ExactHit(f.substring, sentences[f.i])
       IN frames' = [frames EXCEPT ![c] =
                        [f EXCEPT !.results = f.results \o hit,
                                  !.set_of_seen =
                                      IF hit = <<>> THEN f.set_of_seen
                                      ELSE f.set_of_seen \cup {sentences[f.i].content},
                                  !.i = f.i + 1]]
    /\ UNCHANGED <<engineVars, pc, scoreVars, regexVars, guiVars>>

\* the first loop is over: the guard of the fuzzy phase
Guard(c) ==
    /\ frames[c].pc = "exact"
    /\ frames[c].i > Len(sentences)
    /\ LET f == frames[c]
       IN frames' = [frames EXCEPT ![c] =
                        IF RunsFuzzy(Len(f.results))
                        THEN [f EXCEPT !.pc = "fuzzy", !.i = 1,
                                       !.fuzzy_candidates =
                                           search_sentences(f.substring, sentences)]
                        ELSE [f EXCEPT !.pc = "sort"]]
    /\ UNCHANGED <<engineVars, pc, scoreVars, regexVars, guiVars>>

\* one iteration of the second loop of search
FuzzyStep(c) ==
    /\ frames[c].pc = "fuzzy"
    /\ frames[c].i <= Len(frames[c].fuzzy_candidates)
    /\ LET f == frames[c]
       IN frames' = [frames EXCEPT ![c] =
                        [f EXCEPT !.results =
                                      f.results \o FuzzyHit(f.substring, build_regex(f.substring),
                                                             f.fuzzy_candidates[f.i],
                                                             SeenBy(frames, c)),
                                  !.i = f.i + 1]]
    /\ UNCHANGED <<engineVars, pc, scoreVars, regexVars, guiVars>>

\* search returns; get_best_k_completions sorts, slices and returns
Return(c) ==
    /\ \/ frames[c].pc = "sort"
       \/ frames[c].pc = "fuzzy" /\ frames[c].i > Len(frames[c].fuzzy_candidates)
    /\ frames' = [frames EXCEPT ![c] =
                     [frames[c] EXCEPT !.pc = "done", !.ret = Ranked(frames[c].results)]]
    /\ UNCHANGED <<engineVars, pc, scoreVars, regexVars, guiVars>>

\* the caller drops the list it was given
Release(c) ==
    /\ frames[c].pc = "done"
    /\ frames' = [frames EXCEPT ![c] = FreeFrame]
    /\ UNCHANGED <<engineVars, pc, scoreVars, regexVars, guiVars>>

\* a call is abandoned part-way and its locals are lost
Abandon(c) ==
    /\ frames[c].pc \in {"exact", "fuzzy", "sort"}
    /\ frames' = [frames EXCEPT ![c] = FreeFrame]
    /\ UNCHANGED <<engineVars, pc, scoreVars, regexVars, guiVars>>

NextCalls ==
    \E c \in Calls :
        \/ \E p \in CallQueries : Enter(c, p)
        \/ ExactStep(c)
        \/ Guard(c)
        \/ FuzzyStep(c)
        \/ Return(c)
        \/ Release(c)
        \/ Abandon(c)

SpecCalls == InitCalls /\ [][NextCalls]_vars

(***************************************************************************)
(* The window of gui_main.py.  fetches[n] is the n-th task made by          *)
(* asyncio.ensure_future(self.fetch_completions(text)); Tk runs one handler *)
(* at a time, and the tasks advance only inside check_asyncio_loop.         *)
(***************************************************************************)
\* what the entry can hold after a key release
GuiTexts == { <<>>, <<" ">>, <<"a">>, <<"b">> }

InitGui ==
    /\ sentences = <<>>
    /\ pc = "gui"
    /\ prefix = <<>>
    /\ results = <<>>
    /\ hits = <<>>
    /\ exact_count = 0
    /\ fuzzy_ran = FALSE
    /\ NoScore
    /\ NoRegex
    /\ NoCalls
    /\ NoGui

\* <KeyRelease> with t in the entry: the debounce timer is set again
on_text_change(t) ==
    /\ pc = "gui"
    /\ entry' = t
    /\ debounce_pending' = TRUE
    /\ UNCHANGED <<engineVars, pc, scoreVars, regexVars, frames,
                   fetches, current_task, after0, listbox, spinner>>

\* the task asyncio.ensure_future returns: its first step is only scheduled
NewTask(text) ==
    [text |-> text, state |-> "created", must_cancel |-> FALSE, outcome |-> "none"]

\* the tasks after "if self.current_task and not self.current_task.done():
\* self.current_task.cancel()"
AfterCancel(tasks, current) ==
    IF current # NoTask /\ tasks[current].state # "done"
    THEN [tasks EXCEPT ![current].must_cancel = TRUE]
    ELSE tasks

\* the debounce timer fires
start_fetch_completions ==
    /\ pc = "gui"
    /\ debounce_pending
    /\ debounce_pending' = FALSE
    /\ LET text_to_complete == Strip(entry)
       IN IF text_to_complete = <<>>
          THEN /\ listbox' = <<>>
               /\ spinner' = FALSE
               /\ UNCHANGED <<fetches, current_task>>
          ELSE /\ Len(fetches) < MaxFetches
               /\ fetches' = Append(AfterCancel(fetches, current_task),
                                     NewTask(text_to_complete))
               /\ current_task' = Len(fetches) + 1
               /\ listbox' = <<>>
               /\ spinner' = TRUE
    /\ UNCHANGED <<engineVars, pc, scoreVars, regexVars, frames, entry, after0>>

\* a thread of asyncio.to_thread ends inside get_best_completions: the call
\* has its text (o = "ok") or an exception (o = "err") for the task
get_best_completions(n, o) ==
    /\ pc = "gui"
    /\ n \in 1..Len(fetches)
    /\ fetches[n].state = "awaiting"
    /\ ~fetches[n].must_cancel
    /\ fetches' = [fetches EXCEPT ![n].state = "ready", ![n].outcome = o]
    /\ UNCHANGED <<engineVars, pc, scoreVars, regexVars, frames,
                   entry, debounce_pending, current_task, after0, listbox, spinner>>

\* fetch_completions of task f in one iteration of the asyncio loop: a task
\* cancelled before its first step never enters the coroutine; one
\* cancelled at its await runs the CancelledError handler; one whose call
\* has ended runs to its end
TaskStep(f) ==
    IF f.state = "created"
    THEN IF f.must_cancel THEN [f EXCEPT !.state = "done"]
         ELSE [f EXCEPT !.state = "awaiting"]
    ELSE IF f.state \in {"awaiting", "ready"} /\ f.must_cancel
         THEN [f EXCEPT !.state = "done"]
    ELSE IF f.state = "ready" THEN [f EXCEPT !.state = "done"]
    ELSE f

\* fetch_completions of task f calls self.stop_spinner() in this iteration:
\* in the CancelledError handler or in the Exception handler
StopsSpinner(f) ==
    \/ f.state \in {"awaiting", "ready"} /\ f.must_cancel
    \/ f.state = "ready" /\ f.outcome = "err"

\* the callbacks the tasks from n on give to self.root.after(0, ...)
RECURSIVE Registered(_, _)
Registered(tasks, n) ==
    IF n > Len(tasks) THEN <<>>
    ELSE (IF tasks[n].state = "ready" /\ ~tasks[n].must_cancel
          THEN <<[fetch |-> n,
                  kind |-> IF tasks[n].outcome = "ok" THEN "update_gui" ELSE "error"]>>
          ELSE <<>>) \o Registered(tasks, n + 1)

\* loop.call_soon(loop.stop); loop.run_forever(): every task that can run
\* takes its step
check_asyncio_loop ==
    /\ pc = "gui"
    /\ fetches' = [n \in 1..Len(fetches) |-> TaskStep(fetches[n])]
    /\ spinner' = (spinner /\ \A n \in 1..Len(fetches) : ~StopsSpinner(fetches[n]))
    /\ after0' = after0 \o Registered(fetches, 1)
    /\ UNCHANGED <<engineVars, pc, scoreVars, regexVars, frames,
                   entry, debounce_pending, current_task, listbox>>

\* Tk runs the update_gui a completed fetch registered
update_gui ==
    /\ pc = "gui"
    /\ after0 # <<>>
    /\ Head(after0).kind = "update_gui"
    /\ spinner' = FALSE
    /\ listbox' = <<[fetch |-> Head(after0).fetch, kind |-> "completion"]>>
    /\ after0' = Tail(after0)
    /\ UNCHANGED <<engineVars, pc, scoreVars, regexVars, frames,
                   entry, debounce_pending, fetches, current_task>>

\* Tk runs the lambda that inserts "Error: ..." for a failed fetch
insert_error ==
    /\ pc = "gui"
    /\ after0 # <<>>
    /\ Head(after0).kind = "error"
    /\ listbox' = Append(listbox, [fetch |-> Head(after0).fetch, kind |-> "error"])
    /\ after0' = Tail(after0)
    /\ UNCHANGED <<engineVars, pc, scoreVars, regexVars, frames,
                   entry, debounce_pending, fetches, current_task, spinner>>

NextGui ==
    \/ \E t \in GuiTexts : on_text_change(t)
    \/ start_fetch_completions
    \/ \E n \in 1..MaxFetches : \E o \in {"ok", "err"} : get_best_completions(n, o)
    \/ check_asyncio_loop
    \/ update_gui
    \/ insert_error

SpecGui == InitGui /\ [][NextGui]_vars

(***************************************************************************)
(* build_regex on its own: the pattern of one query put to one text.       *)
(***************************************************************************)
\* the queries build_regex is given, and the texts the pattern is put to
RegexQueries == Strings({"a", "B", " "}, MaxPatternLen)

RegexTexts == Strings({"a", "b", "c", " "}, MaxTextLen)

InitRegex ==
    /\ sentences = <<>>
    /\ pc = "regex"
    /\ prefix = <<>>
    /\ results = <<>>
    /\ hits = <<>>
    /\ exact_count = 0
    /\ fuzzy_ran = FALSE
    /\ NoScore
    /\ rq \in RegexQueries
    /\ rt \in RegexTexts
    /\ accepted = FALSE
    /\ span = NoMatch
    /\ NoCalls
    /\ NoGui

\* the pattern is built and put to rt, as a whole and with search
Match ==
    /\ pc = "regex"
    /\ accepted' = FullMatch(build_regex(rq), rt)
    /\ span' = RegexSearch(build_regex(rq), rt)
    /\ pc' = "matched"
    /\ UNCHANGED <<engineVars, scoreVars, rq, rt, frames, guiVars>>

NextRegex == Match

SpecRegex == InitRegex /\ [][NextRegex]_vars

(***************************************************************************)
(* Properties.                                                             *)
(***************************************************************************)
Returned == pc = "returned"

\* the record at line k of the archive is among the candidates of list
Has(list, k) == \E n \in 1..Len(list) : list[n].offset = k

\* the records of a list of candidates, in order
Records(list) == [n \in 1..Len(list) |-> list[n].offset]

DeleteAt(s, i) == SubSeq(s, 1, i) \o SubSeq(s, i + 2, Len(s))

\* short is long with one character removed
OneDeletion(long, short) ==
    /\ Len(long) = Len(short) + 1
    /\ \E i \in 0..(Len(long) - 1) : DeleteAt(long, i) = short

\* a and b have the same length and differ at exactly one position
OneSubstitution(a, b) ==
    /\ Len(a) = Len(b)
    /\ Cardinality({i \in 1..Len(a) : a[i] # b[i]}) = 1

WithinOneEdit(a, b) ==
    a = b \/ OneSubstitution(a, b) \/ OneDeletion(a, b) \/ OneDeletion(b, a)

\* C1: get_best_k_completions returns at most 5 candidates, in order of
\* non-increasing score, and two adjacent candidates of equal score are in
\* ascending order of their lowercased sentence
C1_AtMostFiveRanked ==
    Returned =>
        /\ Len(hits) <= 5
        /\ \A n \in 1..(Len(hits) - 1) :
               /\ hits[n].score >= hits[n + 1].score
               /\ hits[n].score = hits[n + 1].score =>
                      ~StrLess(Lower(hits[n + 1].completed_sentence),
                               Lower(hits[n].completed_sentence))

\* more than 5 candidates were found, and the list returned has both a
\* drop in score and a tie between two different sentences
C1_Witness ==
    /\ Returned
    /\ Len(results) > 5
    /\ Len(hits) = 5
    /\ \E n \in 1..4 : hits[n].score > hits[n + 1].score
    /\ \E n \in 1..4 :
           /\ hits[n].score = hits[n + 1].score
           /\ StrLess(Lower(hits[n].completed_sentence), Lower(hits[n + 1].completed_sentence))

\* text[i:j] is a phrase of the text: it begins and ends with a word
\* character and has a word boundary on both sides
IsPhrase(text, i, j) ==
    /\ i < j
    /\ WordBoundary(text, i) /\ WordBoundary(text, j)
    /\ IsWord(text[i + 1]) /\ IsWord(text[j])

\* q is P with one character deleted, with one word character inserted, or
\* with one character replaced by another, word, character
IsTypoOf(q, P) ==
    \/ OneDeletion(P, q)
    \/ \E i \in 0..(Len(q) - 1) : IsWord(q[i + 1]) /\ DeleteAt(q, i) = P
    \/ /\ OneSubstitution(q, P)
       /\ \A i \in 1..Len(q) : q[i] # P[i] => IsWord(q[i])

\* the record at line k holds a phrase of which the query is a typo
TypoOfLine(q, k) ==
    LET text == sentences[k].content
    IN \E i \in 0..Len(text) : \E j \in 0..Len(text) :
           IsPhrase(text, i, j) /\ IsTypoOf(q, SubSeq(text, i + 1, j))

\* with fewer than 5 exact matches the record is a candidate of search,
\* and with at most 5 candidates it is returned by get_best_k_completions
Tolerated(k) ==
    exact_count < 5 =>
        /\ Has(results, k)
        /\ Len(results) <= 5 => Has(hits, k)

\* C2 as stated: every query that is a one-edit typo of a phrase of a
\* record gets that record
C2_OneEditTolerance_AsStated ==
    Returned =>
        \A k \in 1..Len(sentences) : TypoOfLine(prefix, k) => Tolerated(k)

\* C2, amended: a query that the normalisation of search leaves unchanged
\* and that is a one-edit typo of a phrase of a record gets that record
C2_OneEditTolerance ==
    Returned /\ NormalizeQuery(prefix) = prefix =>
        \A k \in 1..Len(sentences) : TypoOfLine(prefix, k) => Tolerated(k)

\* a typo of a phrase of four characters or more, which only the fuzzy
\* phase can find
C2_Witness ==
    /\ Returned
    /\ NormalizeQuery(prefix) = prefix
    /\ Len(prefix) >= 3
    /\ exact_count = 0
    /\ \E k \in 1..Len(sentences) :
           TypoOfLine(prefix, k) /\ Has(results, k) /\ Has(hits, k)

\* commas removed, runs of whitespace made one space, the ends trimmed:
\* what two queries that differ only in whitespace and commas share
Canonical(q) == Strip(CollapseSpaces(RemoveCommas(q)))

\* C3: a query gets the ranked list of every query that differs from it
\* only in whitespace and commas, that of its canonical form for one
C3_NormalisationInvariance ==
    Returned =>
        Records(hits) = Records(Ranked(search(Canonical(prefix), sentences)))

\* C4: when the exact phase finds 5 candidates or more the fuzzy phase does
\* not run: every candidate is an exact match with score 2 * len(query)
C4_ExactShortCircuit ==
    Returned /\ exact_count >= 5 =>
        /\ ~fuzzy_ran
        /\ Len(results) = exact_count
        /\ \A n \in 1..Len(results) :
               /\ results[n].score = 2 * Len(NormalizeQuery(prefix))
               /\ is_perfect_match(NormalizeQuery(prefix), results[n].completed_sentence)

\* 5 exact matches, and a record that only the fuzzy pattern matches
C4_Witness ==
    /\ Returned
    /\ exact_count >= 5
    /\ \E k \in 1..Len(sentences) :
           /\ ~is_perfect_match(NormalizeQuery(prefix), sentences[k].content)
           /\ RegexSearch(build_regex(NormalizeQuery(prefix)), sentences[k].content) # NoMatch
           /\ ~Has(results, k)

\* what the pattern of the fuzzy phase matches in the record at line k: its
\* matched text, once normalised, is more than one edit away from the
\* normalised query, and the exact phase did not take the record
MultiEditMatch(q, k) ==
    LET text == sentences[k].content
        m == RegexSearch(build_regex(q), text)
    IN /\ ExactHit(q, sentences[k]) = <<>>
       /\ m # NoMatch
       /\ ~WithinOneEdit(norm(SubSeq(text, m[1] + 1, m[2])), norm(q))

\* the score search gives the record at line k in the fuzzy phase
FuzzyScore(q, k) ==
    LET text == sentences[k].content
        m == RegexSearch(build_regex(q), text)
    IN calc_score(q, SubSeq(text, m[1] + 1, m[2]))

\* C5: a fuzzy candidate whose matched text, once normalised, is more than
\* one edit away from the normalised query is scored 0 and is in the result
\* neither of search nor of get_best_k_completions
C5_MultiEditExcluded ==
    Returned /\ fuzzy_ran =>
        \A k \in 1..Len(sentences) :
            MultiEditMatch(NormalizeQuery(prefix), k) =>
                /\ FuzzyScore(NormalizeQuery(prefix), k) = 0
                /\ ~Has(results, k)
                /\ ~Has(hits, k)

\* C6: a query that is empty once normalised gets the empty list
C6_EmptyQueryEmptyResult ==
    Returned /\ NormalizeQuery(prefix) = <<>> => results = <<>> /\ hits = <<>>

IsWordQuery(q) == q # <<>> /\ \A i \in 1..Len(q) : IsWord(q[i])

\* text[i:j], with a word boundary on both sides, is the query or one edit
\* away from it, case ignored as both phases ignore it
BoundedNearMatch(q, text, i, j) ==
    /\ i <= j
    /\ WordBoundary(text, i) /\ WordBoundary(text, j)
    /\ WithinOneEdit(Lower(SubSeq(text, i + 1, j)), Lower(q))

HasBoundedNearMatch(q, text) ==
    \E i \in 0..Len(text) : \E j \in 0..Len(text) : BoundedNearMatch(q, text, i, j)

\* C7: for a query of word characters, every record returned holds,
\* between two word boundaries, the query or a string one edit away from it
C7_WordBoundaryRule ==
    Returned /\ IsWordQuery(prefix) =>
        \A n \in 1..Len(results) : HasBoundedNearMatch(prefix, results[n].completed_sentence)

\* the query occurs inside a larger word of a record, which is not returned
C7_Witness ==
    /\ Returned
    /\ IsWordQuery(prefix)
    /\ Len(prefix) >= 2
    /\ \E k \in 1..Len(sentences) :
           /\ Contains(Lower(prefix), Lower(sentences[k].content))
           /\ ~HasBoundedNearMatch(prefix, sentences[k].content)
           /\ ~Has(results, k)

\* C8: every record in which the tokens of the query occur as a run of
\* whole words, whatever separates them, is a candidate of the exact phase
\* with score 2 * len(query)
C8_ExactIgnoresPunctuation ==
    Returned =>
        \A k \in 1..Len(sentences) :
            is_perfect_match(NormalizeQuery(prefix), sentences[k].content) =>
                \E n \in 1..exact_count :
                    /\ results[n].offset = k
                    /\ results[n].score = 2 * Len(NormalizeQuery(prefix))

\* C9: no candidate returned by search or get_best_k_completions has a
\* negative score, and calc_score returns no negative value
C9_ScoresNonNegative ==
    /\ \A n \in 1..Len(results) : results[n].score >= 0
    /\ \A n \in 1..Len(hits) : hits[n].score >= 0
    /\ pc = "scored" => score >= 0

\* the penalty of an inserted or deleted character, as C10 tabulates it
EditPenalty(k) ==
    CASE k = 0 -> 10
      [] k = 1 -> 8
      [] k = 2 -> 6
      [] k = 3 -> 4
      [] OTHER -> 2

\* C10: when one of the normalised strings is the other with one extra
\* character at index k, calc_score returns 2 * len(shorter) - EditPenalty(k)
C10_InsertDeleteScore ==
    pc = "scored" =>
        LET q == norm(sq)
            m == norm(sm)
            L == IF Len(q) > Len(m) THEN q ELSE m
            S == IF Len(q) > Len(m) THEN m ELSE q
        IN OneDeletion(L, S) =>
               \E k \in 0..(Len(L) - 1) :
                   DeleteAt(L, k) = S /\ score = 2 * Len(S) - EditPenalty(k)

\* the positions where two strings of equal length differ
DiffPositions(a, b) == {p \in 0..(Len(a) - 1) : a[p + 1] # b[p + 1]}

\* the substitution penalty as the specification tabulates it
SubstitutionPenalty(p) == IF p >= 4 THEN 1 ELSE 5 - p

C12_NoDuplicateRecord ==
    Returned =>
        \A i, j \in 1..Len(results) :
            i # j => results[i].offset # results[j].offset

\* the fuzzy phase has run after two exact matches that its pattern matches
\* as well, and has added other records
C12_Witness ==
    /\ Returned
    /\ fuzzy_ran
    /\ exact_count >= 2
    /\ Len(results) > exact_count
    /\ \A i \in 1..exact_count :
           RegexSearch(build_regex(NormalizeQuery(prefix)),
                       results[i].completed_sentence) # NoMatch

\* t is q, or q with one character inserted, deleted or replaced
OneEditNeighbour(q, t) ==
    \/ t = q
    \/ /\ Len(t) = Len(q) + 1
       /\ \E i \in 0..Len(q) : /\ SubSeq(t, 1, i) = SubSeq(q, 1, i)
                                 /\ SubSeq(t, i + 2, Len(t)) = SubSeq(q, i + 1, Len(q))
    \/ \E i \in 1..Len(q) : t = SubSeq(q, 1, i - 1) \o SubSeq(q, i + 1, Len(q))
    \/ /\ Len(t) = Len(q)
       /\ \E i \in 1..Len(q) : \A k \in (1..Len(q)) \ {i} : t[k] = q[k]

\* C14: ignoring case, a text is matched in full by an alternative of
\* build_regex(q) exactly when it is q or q with one character inserted (at
\* any position 0..len(q)), deleted or replaced; and a match that search
\* finds inside a text begins and ends at a word boundary and covers such a
\* neighbour of q.
C14_OneEditNeighbourhood ==
    pc = "matched" =>
        /\ accepted <=> OneEditNeighbour(Lower(rq), Lower(rt))
        /\ span # NoMatch =>
              /\ WordBoundary(rt, span[1])
              /\ WordBoundary(rt, span[2])
              /\ OneEditNeighbour(Lower(rq), Lower(SubSeq(rt, span[1] + 1, span[2])))

\* a text that differs from the query in case and by one inserted character
\* is accepted in full, and search finds a match strictly inside another
C14_Witness ==
    /\ pc = "matched"
    /\ accepted
    /\ Len(rt) = Len(rq) + 1
    /\ \E k \in 1..Len(rq) : rq[k] = "B"
    /\ span # NoMatch
    /\ span[1] > 0

\* a and b are exactly one insertion, deletion or substitution apart
OneEditApart(a, b) ==
    OneSubstitution(a, b) \/ OneDeletion(a, b) \/ OneDeletion(b, a)

\* the candidate at index n of results was added by the fuzzy phase for a
\* matched text one edit away from the query, both normalised
OneEditCandidate(n) ==
    /\ n > exact_count
    /\ OneEditApart(norm(NormalizeQuery(prefix)),
                    norm(SubSeq(results[n].completed_sentence,
                                results[n].match_span[1] + 1,
                                results[n].match_span[2])))

\* the index in results of the candidate at index h of hits
ResultIndex(h) == CHOOSE n \in 1..Len(results) : results[n].offset = hits[h].offset

\* C16: for a query of word characters every candidate of the exact phase
\* has a strictly greater score than every candidate of the fuzzy phase
\* whose normalised matched text is one edit away from the normalised
\* query, and get_best_k_completions lists the former before the latter.
C16_ExactOutranksOneEdit ==
    Returned /\ IsWordQuery(prefix) =>
        /\ \A i \in 1..exact_count : \A j \in 1..Len(results) :
               OneEditCandidate(j) => results[i].score > results[j].score
        /\ \A g, h \in 1..Len(hits) :
               (ResultIndex(g) <= exact_count /\ OneEditCandidate(ResultIndex(h))) => g < h

\* C13: under any interleaving of calls of get_best_k_completions on one
\* AutoCompletor, abandoned calls included, no step modifies self.sentences
\* and every call that completes returns, at the step where it returns, the
\* list a call running alone on an engine with the same corpus returns.
C13_StatelessCalls ==
    [][/\ sentences' = sentences
       /\ \A c \in Calls :
              (frames[c].pc # "done" /\ frames'[c].pc = "done") =>
                  frames'[c].ret = Ranked(search(frames'[c].prefix, sentences'))]_vars

\* call 1 has completed with a fuzzy candidate whose text is in the
\* set_of_seen of call 2, which is part-way through its fuzzy loop for
\* another query
C13_Witness ==
    /\ frames[1].pc = "done"
    /\ frames[2].pc = "fuzzy"
    /\ frames[2].i > 1
    /\ frames[2].prefix # frames[1].prefix
    /\ \E n \in 1..Len(frames[1].ret) :
           /\ frames[1].ret[n].completed_sentence \in frames[2].set_of_seen
           /\ frames[1].ret[n].completed_sentence \notin frames[1].set_of_seen

\* fetch n, or the callback it registered, acts in this step
FetchActs(n) ==
    \/ fetches'[n] # fetches[n]
    \/ after0 # <<>> /\ Head(after0).fetch = n /\ after0' = Tail(after0)

\* C15: when start_fetch_completions starts a fetch, the previous fetch is
\* cancelled if it is still running; and no step in which a fetch other
\* than the most recently started one acts hides the spinner or puts the
\* completions of that fetch in the listbox.
C15_Supersession ==
    [][/\ Len(fetches') > Len(fetches) =>
              \A n \in 1..Len(fetches) :
                  fetches'[n].state = "done" \/ fetches'[n].must_cancel
       /\ \A n \in 1..Len(fetches) :
              (n # current_task' /\ FetchActs(n)) =>
                  /\ spinner => spinner'
                  /\ \A k \in 1..Len(listbox') :
                         listbox'[k] # [fetch |-> n, kind |-> "completion"]]_vars

====
